---- MODULE Spec2Model ----
(***************************************************************************)
(* A model of src/src/heartbeat-shared.c: the lifecycle of a heartbeat     *)
(* handle (heartbeat_init, heartbeat_finish), the recording operation      *)
(* heartbeat() called by several threads of one process, the windowed      *)
(* averager hb_window_average and the flush of the shared log to the text  *)
(* log (hb_flush_buffer).                                                  *)
(*                                                                         *)
(* Arithmetic.  The code computes its means and rates in double; the model *)
(* computes them as exact rationals <<numerator, denominator>> in lowest   *)
(* terms, so the rounding of double and of the (float) casts of lines 221  *)
(* and 223 is not modelled.  A rate <<n, d>> is n beats per d nanoseconds: *)
(* the code's factor 1000000000 (lines 221, 272, 274) turns it into        *)
(* n * 1e9 / d beats per second, so 1.0 beat per second is <<1, NS>>.      *)
(* A division by 0.0 gives +infinity in double; it is the value Inf.       *)
(***************************************************************************)
EXTENDS Integers, Sequences, FiniteSets, TLC

\* ---------------------------------------------------------------- bounds
\* Calls of heartbeat() started on one handle.
MaxBeats == 3
\* window_size ranges over 1..MaxWindow, buffer_depth over 1..MaxDepth.
MaxWindow == 2
MaxDepth == 2

\* ------------------------------------------------------------- constants
\* The factor between nanoseconds and seconds (lines 221, 272, 274).
NS == 1000000000
\* The sentinel of first_timestamp and last_timestamp (line 71).
Unset == -1

Threads == {1, 2}
NoThread == 0
\* The timestamps a time-source file may hold.
Times == {Unset, 0, NS, 2 * NS}

\* --------------------------------------------------------------- numbers
Abs(x) == IF x < 0 THEN -x ELSE x

RECURSIVE GCD(_, _)
GCD(a, b) == IF b = 0 THEN a ELSE GCD(b, a % b)

\* n / d in lowest terms with a positive denominator (d # 0).
Rat(n, d) ==
  LET g == GCD(Abs(n), Abs(d))
      s == IF d < 0 THEN -1 ELSE 1
  IN  <<(s * n) \div g, (s * d) \div g>>

Zero == <<0, 1>>
\* x / 0.0 for x > 0.
Inf == <<1, 0>>

\* a + b and a - b of two rationals, over their least common denominator.
RatAdd(a, b) ==
  LET g == GCD(a[2], b[2])
      l == (a[2] \div g) * b[2]
  IN  Rat(a[1] * (l \div a[2]) + b[1] * (l \div b[2]), l)

RatNeg(a) == <<-a[1], a[2]>>

\* n / d as double division does it: +infinity when d is 0 (n > 0 here).
Div(n, d) == IF d = 0 THEN Inf ELSE Rat(n, d)

RECURSIVE SumTo(_, _)
\* window[0] + ... + window[n] (the loop of lines 196-198).
SumTo(window, n) ==
  IF n < 0 THEN 0 ELSE window[n] + SumTo(window, n - 1)

\* ------------------------------------------------------- the time source
(***************************************************************************)
(* The time-source file is opened once by heartbeat_init (line 128) and    *)
(* read through that one stream by every call of heartbeat (line 238): the *)
(* stream is never rewound.  timefile is the text the stream has not read  *)
(* yet, a sequence of tokens: a decimal number, a non-numeric word, a line *)
(* break.  Tokens are separated by blanks.  A long word is a non-numeric   *)
(* word of 100 characters or more: more than buf (line 237) can take.      *)
(***************************************************************************)
Num(v) == [k |-> "num", v |-> v]
Junk == [k |-> "junk", v |-> 0]
Long == [k |-> "long", v |-> 0]
NL == [k |-> "nl", v |-> 0]

RECURSIVE Scanset(_)
\* fscanf(fp, "%[^\n]", buf): the longest run of characters that are not a
\* line break; nothing is stored when the run is empty (buf stays "").
Scanset(s) ==
  IF s = <<>> \/ Head(s).k = "nl" THEN <<>>
  ELSE <<Head(s)>> \o Scanset(Tail(s))

\* strtol(buf, NULL, 10): the leading number of buf, 0 when there is none.
Strtol(buf) ==
  IF buf # <<>> /\ Head(buf).k = "num" THEN Head(buf).v ELSE 0

\* The scan has no field width (line 238): a run of 100 characters or more is
\* stored beyond the end of char buf[100].
Overflows(buf) == \E i \in 1..Len(buf) : buf[i].k = "long"

\* What the file holds when heartbeat_init opens it.
FirstLines ==
  {<<>>, <<Junk, NL>>, <<Long, NL>>} \cup {<<Num(v)>> : v \in Times}
    \cup {<<Num(v), NL>> : v \in Times}

\* What the external writer may have added behind the stream's position
\* since the last read.
Appends == {<<>>, <<NL>>, <<Junk>>} \cup {<<Num(v)>> : v \in Times}

\* ----------------------------------------------------------------- state
VARIABLES
  args,        \* the arguments of heartbeat_init: window_size, buffer_depth, log_name
  phase,       \* "start"; "live"; "failed": init returned NULL; "init_fault":
               \* the process ended in a failing init; "finished"; "fault": the
               \* process ended in heartbeat()
  assigned,    \* the fields of the handle and of the shared state assigned so far
  held,        \* the resources the process holds
  unset_used,  \* the fields heartbeat_finish used although nothing had assigned them
  hb,          \* the private fields of heartbeat_t
  state,       \* the shared state record hb->state
  log,         \* the shared log array hb->log and the memory behind it
  text_file,   \* the text log: open?, header written?, the record lines
  mutex,       \* the thread that holds hb->mutex, or NoThread
  pc,          \* where each thread is in heartbeat()
  loc,         \* the locals of each thread's call
  timefile,    \* the unread text of the time-source stream
  written,     \* history: the records stored in the log, in the order of the stores
  returned,    \* history: the calls that returned, in the order of their returns
  flushes      \* history: the flushes made by heartbeat()

vars == <<args, phase, assigned, held, unset_used, hb, state, log, text_file,
          mutex, pc, loc, timefile, written, returned, flushes>>

\* The memory of the log: the array is 0..buffer_depth-1, what lies behind it
\* is memory of the shared segment that is not part of the array.
LogSlots == 0..MaxBeats

\* A log record nothing has written yet.
NoRecord ==
  [beat |-> Unset, tag |-> 0, timestamp |-> 0,
   global_rate |-> Zero, window_rate |-> Zero, instant_rate |-> Zero]

LocInit == [tag |-> 0, time |-> 0, old_last_time |-> 0, index |-> 0,
            window_heartrate |-> Zero]

\* The state before heartbeat_init is called with arguments among argset.
InitWith(argset) ==
  /\ args \in argset
  /\ phase = "start"
  /\ assigned = {}
  /\ held = {}
  /\ unset_used = {}
  /\ hb = [first_timestamp |-> 0, last_timestamp |-> 0,
           window |-> [i \in 0..(args.window_size - 1) |-> 0],
           current_index |-> 0, steady_state |-> FALSE,
           last_average_time |-> Zero]
  /\ state = [counter |-> 0, buffer_index |-> 0, read_index |-> 0, valid |-> 0,
              window_size |-> 0, buffer_depth |-> 0]
  /\ log = [i \in LogSlots |-> NoRecord]
  /\ text_file = [open |-> FALSE, header |-> FALSE, lines |-> <<>>]
  /\ mutex = NoThread
  /\ pc = [t \in Threads |-> "idle"]
  /\ loc = [t \in Threads |-> LocInit]
  /\ timefile = <<>>
  /\ written = <<>>
  /\ returned = <<>>
  /\ flushes = <<>>

Init ==
  InitWith([window_size : 1..MaxWindow, buffer_depth : 1..MaxDepth,
            log_name : BOOLEAN])

\* -------------------------------------------------------- heartbeat_init
\* The steps of heartbeat_init that can fail, in the order of the code.
InitSteps ==
  <<"malloc_hb", "alloc_state", "open_log", "getenv", "alloc_log",
    "malloc_window", "open_marker", "opendir", "find_timefile",
    "open_timefile">>

StepNo(step) == CHOOSE i \in 1..Len(InitSteps) : InitSteps[i] = step

\* The fields a step assigns when it succeeds.
StepAssigns(step) ==
  CASE step = "malloc_hb" -> {"window", "text_file"}
    [] step = "alloc_state" -> {"state", "state.pid"}
    [] step = "open_log" -> {"text_file"}
    [] step = "getenv" -> {"filename"}
    [] step = "alloc_log" -> {"log"}
    [] step = "malloc_window" ->
         {"first_timestamp", "last_timestamp", "state.window_size", "window",
          "current_index", "state.min_heartrate", "state.max_heartrate",
          "state.counter", "state.buffer_index", "state.read_index",
          "state.buffer_depth", "mutex", "steady_state", "state.valid"}
    [] step = "open_marker" -> {"binary_file"}
    [] step = "opendir" -> {}
    [] step = "find_timefile" -> {"timefile"}
    [] step = "open_timefile" -> {"timefile_fp"}

\* The fields a step has assigned when it fails (a NULL result is stored too).
StepAssignsOnFailure(step) ==
  CASE step = "alloc_state" -> {"state"}
    [] step = "open_log" -> {"text_file"}
    [] step = "alloc_log" -> {"log"}
    [] step = "malloc_window" ->
         {"first_timestamp", "last_timestamp", "state.window_size", "window"}
    [] step = "open_marker" -> {"binary_file"}
    [] step = "open_timefile" -> {"timefile_fp"}
    [] OTHER -> {}

\* The resources a step acquires when it succeeds.
StepAcquires(step, log_name) ==
  CASE step = "malloc_hb" -> {"hb"}
    [] step = "alloc_state" -> {"shared_state"}
    [] step = "open_log" -> IF log_name THEN {"text_file"} ELSE {}
    [] step = "alloc_log" -> {"shared_log"}
    [] step = "malloc_window" -> {"window", "mutex"}
    [] step = "open_marker" -> {"marker_file"}
    [] step = "open_timefile" -> {"timefile_fp"}
    [] OTHER -> {}

\* Whether the failure branch of a step calls heartbeat_finish before it
\* returns NULL (lines 31, 39, 48, 59, 67, 76, 93, 107, 123, 131).
StepFailureCallsFinish(step) ==
  step \notin {"malloc_hb", "open_timefile"}

\* The steps that can fail with these arguments: the log file is opened only
\* when a log name is given.
CanFail(step, log_name) == step # "open_log" \/ log_name

DoneBefore(step) == {InitSteps[i] : i \in 1..(StepNo(step) - 1)}

AssignedBefore(step) == UNION {StepAssigns(s) : s \in DoneBefore(step)}

HeldBefore(step, log_name) ==
  UNION {StepAcquires(s, log_name) : s \in DoneBefore(step)}

\* ------------------------------------------------------ heartbeat_finish
\* The fields heartbeat_finish reads or passes on: the mutex, the window, the
\* text log and, when that is open, what hb_flush_buffer reads (the log only
\* when buffer_index is not 0), the marker's name, the time-source stream.
FinishUses(text_open, nrecords) ==
  {"mutex", "window", "text_file", "filename", "timefile_fp"}
    \cup (IF text_open THEN {"state", "state.buffer_index"} ELSE {})
    \cup (IF text_open /\ nrecords > 0 THEN {"log"} ELSE {})

\* What heartbeat_finish releases: the shared state and the shared log are
\* not among them (line 176).
FinishReleases ==
  {"mutex", "window", "text_file", "marker_file", "timefile_fp", "hb"}

\* The lines hb_flush_buffer appends: log[0] .. log[nrecords - 1].
FlushLines(lg, nrecords) == [i \in 1..nrecords |-> lg[i - 1]]

\* heartbeat_init with every step succeeding.
InitSucceeds ==
  /\ phase = "start"
  /\ phase' = "live"
  /\ assigned' = UNION {StepAssigns(InitSteps[i]) : i \in 1..Len(InitSteps)}
  /\ held' = UNION {StepAcquires(InitSteps[i], args.log_name) :
                      i \in 1..Len(InitSteps)}
  /\ hb' = [hb EXCEPT !.first_timestamp = Unset, !.last_timestamp = Unset,
                      !.current_index = 0, !.steady_state = FALSE]
  /\ state' = [counter |-> 0, buffer_index |-> 0, read_index |-> 0,
               valid |-> 0, window_size |-> args.window_size,
               buffer_depth |-> args.buffer_depth]
  /\ text_file' = [open |-> args.log_name, header |-> args.log_name,
                   lines |-> <<>>]
  /\ timefile' \in FirstLines
  /\ UNCHANGED <<args, unset_used, log, mutex, pc, loc, written, returned,
                 flushes>>

\* heartbeat_init failing at `step`.  zero: what the unassigned
\* hb->timefile[0] holds when no file matched (line 121).  crash: the use of
\* an unassigned field in heartbeat_finish ends the process.
InitFails(step, zero, crash) ==
  LET before == AssignedBefore(step) \cup StepAssignsOnFailure(step)
      had == HeldBefore(step, args.log_name)
      finish == StepFailureCallsFinish(step)
                  /\ (step = "find_timefile" => zero)
      text_open == "text_file" \in had
      used == FinishUses(text_open, 0)
  IN  /\ phase = "start"
      /\ CanFail(step, args.log_name)
      /\ assigned' = before
      /\ text_file' = [open |-> text_open /\ ~finish, header |-> text_open,
                       lines |-> <<>>]
      /\ IF finish
           THEN /\ unset_used' = used \ before
                /\ crash => unset_used' # {}
                /\ phase' = IF crash THEN "init_fault" ELSE "failed"
                /\ held' = IF crash THEN had ELSE had \ FinishReleases
           ELSE /\ ~crash
                /\ unset_used' = {}
                /\ phase' = "failed"
                /\ held' = had
      /\ UNCHANGED <<args, hb, state, log, mutex, pc, loc, timefile, written,
                     returned, flushes>>

HeartbeatInit ==
  \/ InitSucceeds
  \/ \E i \in 1..Len(InitSteps), zero \in BOOLEAN, crash \in BOOLEAN :
       /\ zero \/ InitSteps[i] = "find_timefile"
       /\ InitFails(InitSteps[i], zero, crash)

\* heartbeat_finish on a live handle, called when no thread is in heartbeat().
HeartbeatFinish ==
  /\ phase = "live"
  /\ \A t \in Threads : pc[t] = "idle"
  /\ phase' = "finished"
  /\ unset_used' = FinishUses(text_file.open, state.buffer_index) \ assigned
  /\ held' = held \ FinishReleases
  /\ text_file' =
       IF text_file.open
         THEN [text_file EXCEPT
                 !.open = FALSE,
                 !.lines = @ \o FlushLines(log, state.buffer_index)]
         ELSE text_file
  /\ UNCHANGED <<args, assigned, hb, state, log, mutex, pc, loc, timefile,
                 written, returned, flushes>>

\* ----------------------------------------------------- hb_window_average
\* 1.0 / average_time (line 221): +infinity when the mean is 0.
RateOfMean(avg) == IF avg[1] = 0 THEN Inf ELSE Rat(avg[2], avg[1])

\* A filling phase that averages over the whole window.
AverageFillingWholeWindow(h, window_size, time) ==
  LET w == [h.window EXCEPT ![h.current_index] = time]
      avg == Rat(SumTo(w, h.current_index), window_size)
      next == h.current_index + 1
  IN  [h EXCEPT !.window = w,
                !.last_average_time = avg,
                !.current_index = IF next = window_size THEN 0 ELSE next,
                !.steady_state = (next = window_size)]

\* The filling phase (lines 193-206): store, average the slots
\* 0..current_index, advance, and turn to the steady state at window_size.
AverageFilling(h, window_size, time) ==
  LET w == [h.window EXCEPT ![h.current_index] = time]
      avg == Rat(SumTo(w, h.current_index), h.current_index + 1)
      next == h.current_index + 1
  IN  [h EXCEPT !.window = w,
                !.last_average_time = avg,
                !.current_index = IF next = window_size THEN 0 ELSE next,
                !.steady_state = (next = window_size)]

\* A steady state that stores the new interval before it takes the share of
\* the slot off the mean.
AverageSteadyStoreFirst(h, window_size, time) ==
  LET w == [h.window EXCEPT ![h.current_index] = time]
      avg == RatAdd(RatAdd(h.last_average_time,
                           RatNeg(Rat(w[h.current_index], window_size))),
                    Rat(time, window_size))
      next == h.current_index + 1
  IN  [h EXCEPT !.last_average_time = avg,
                !.window = w,
                !.current_index = IF next = window_size THEN 0 ELSE next]

\* The steady state (lines 207-220): take the share of the slot about to be
\* overwritten off the mean, add the share of the new interval, store, advance.
AverageSteady(h, window_size, time) ==
  LET avg == RatAdd(RatAdd(h.last_average_time,
                           RatNeg(Rat(h.window[h.current_index], window_size))),
                    Rat(time, window_size))
      next == h.current_index + 1
  IN  [h EXCEPT !.last_average_time = avg,
                !.window = [@ EXCEPT ![h.current_index] = time],
                !.current_index = IF next = window_size THEN 0 ELSE next]

\* hb_window_average(hb, time): the handle afterwards.
WindowAverage(h, window_size, time) ==
  IF ~h.steady_state
    THEN AverageFilling(h, window_size, time)
    ELSE AverageSteady(h, window_size, time)

\* ------------------------------------------------------------- heartbeat
\* Calls started so far: the bound of the model on the number of calls.
Started == Len(returned) + Cardinality({t \in Threads : pc[t] # "idle"})

\* A lock that lets a caller in whoever holds the mutex.
MutexNotChecked == TRUE

\* pthread_mutex_lock returns when no thread holds the mutex.
MutexFree == mutex = NoThread

\* The tag is data heartbeat() only stores (lines 256 and 277).  The callers
\* number their calls, so that every call has a tag of its own and a record
\* with the tag of another call shows.
TagOfCall(n) == n

\* Line 226: a thread calls heartbeat(hb, tag) and waits for the mutex.
HbCall(t) ==
  /\ phase = "live"
  /\ pc[t] = "idle"
  /\ Started < MaxBeats
  /\ loc' = [loc EXCEPT ![t] = [LocInit EXCEPT !.tag = TagOfCall(Started + 1)]]
  /\ pc' = [pc EXCEPT ![t] = "lock"]
  /\ UNCHANGED <<args, phase, assigned, held, unset_used, hb, state, log,
                 text_file, mutex, timefile, written, returned, flushes>>

\* Lines 233-246: take the mutex, read last_timestamp, read what the stream
\* holds up to the next line break, parse it, store it in last_timestamp.
\* Text added behind unread text changes nothing of what this and the later
\* reads return.  A run longer than buf is a store outside the object: it
\* lands in memory the call does not use again, or it ends the process.
HbLock(t) ==
  /\ phase = "live"
  /\ pc[t] = "lock"
  /\ MutexFree
  /\ mutex' = t
  /\ \E add \in (IF timefile = <<>> THEN Appends ELSE {<<>>}) :
       LET s == timefile \o add
           buf == Scanset(s)
           time == Strtol(buf)
       IN  /\ timefile' = SubSeq(s, Len(buf) + 1, Len(s))
           /\ \/ /\ loc' = [loc EXCEPT ![t].old_last_time = hb.last_timestamp,
                                        ![t].time = time]
                 /\ hb' = [hb EXCEPT !.last_timestamp = time]
                 /\ pc' = [pc EXCEPT ![t] = "branch"]
                 /\ UNCHANGED phase
              \/ /\ Overflows(buf)
                 /\ phase' = "fault"
                 /\ UNCHANGED <<loc, hb, pc>>
  /\ UNCHANGED <<args, assigned, held, unset_used, state, log, text_file,
                 written, returned, flushes>>

\* The test of line 248.
IsFirstBeat == hb.first_timestamp = Unset

\* A first beat that sets valid before the record and the counters.
HbFirstLogValidFirst(t) ==
  /\ phase = "live"
  /\ pc[t] = "branch"
  /\ IsFirstBeat
  /\ state' = [state EXCEPT !.valid = 1]
  /\ pc' = [pc EXCEPT ![t] = "first_counter"]
  /\ UNCHANGED <<args, phase, assigned, held, unset_used, hb, log, text_file,
                 mutex, loc, timefile, written, returned, flushes>>

\* Lines 248-260: the first beat sets both timestamps and window slot 0, and
\* stores its record at index 0 with all rates 0.
HbFirstLog(t) ==
  /\ phase = "live"
  /\ pc[t] = "branch"
  /\ IsFirstBeat
  /\ hb' = [hb EXCEPT !.first_timestamp = loc[t].time,
                      !.last_timestamp = loc[t].time,
                      !.window = [@ EXCEPT ![0] = 0]]
  /\ log' = [log EXCEPT ![0] =
               [beat |-> state.counter, tag |-> loc[t].tag,
                timestamp |-> loc[t].time, global_rate |-> Zero,
                window_rate |-> Zero, instant_rate |-> Zero]]
  /\ written' = Append(written,
                  [beat |-> state.counter, index |-> 0, tag |-> loc[t].tag,
                   time |-> loc[t].time, first |-> TRUE])
  /\ pc' = [pc EXCEPT ![t] = "first_counter"]
  /\ UNCHANGED <<args, phase, assigned, held, unset_used, state, text_file,
                 mutex, loc, timefile, returned, flushes>>

\* A counter that is not advanced.
SameCount(c) == c

\* counter++ (lines 261 and 283).
NextCount(c) == c + 1

\* Line 261.
HbFirstCounter(t) ==
  /\ phase = "live"
  /\ pc[t] = "first_counter"
  /\ state' = [state EXCEPT !.counter = NextCount(@)]
  /\ pc' = [pc EXCEPT ![t] = "first_index"]
  /\ UNCHANGED <<args, phase, assigned, held, unset_used, hb, log, text_file,
                 mutex, loc, timefile, written, returned, flushes>>

\* Line 262: no test for the wrap follows in this branch.
HbFirstIndex(t) ==
  /\ phase = "live"
  /\ pc[t] = "first_index"
  /\ state' = [state EXCEPT !.buffer_index = @ + 1]
  /\ pc' = [pc EXCEPT ![t] = "first_valid"]
  /\ UNCHANGED <<args, phase, assigned, held, unset_used, hb, log, text_file,
                 mutex, loc, timefile, written, returned, flushes>>

\* Line 263.
HbFirstValid(t) ==
  /\ phase = "live"
  /\ pc[t] = "first_valid"
  /\ state' = [state EXCEPT !.valid = 1]
  /\ pc' = [pc EXCEPT ![t] = "unlock"]
  /\ UNCHANGED <<args, phase, assigned, held, unset_used, hb, log, text_file,
                 mutex, loc, timefile, written, returned, flushes>>

\* A global rate that leaves this beat out of the count.
GlobalRateBeatsBefore(counter, time, first_timestamp) ==
  Div(counter, time - first_timestamp)

\* Lines 270-272: the beats counted so far and this one, over the time since
\* the first beat.
GlobalRate(counter, time, first_timestamp) ==
  Div(counter + 1, time - first_timestamp)

\* Lines 273-274: one beat over the time since the last beat.
InstantRate(time, old_last_time) == Div(1, time - old_last_time)

\* The record of a later beat (lines 276-281), with the handle h the averager
\* has left.
NextRecord(t, h) ==
  [beat |-> state.counter, tag |-> loc[t].tag, timestamp |-> loc[t].time,
   global_rate |-> GlobalRate(state.counter, loc[t].time, h.first_timestamp),
   window_rate |-> RateOfMean(h.last_average_time),
   instant_rate |-> InstantRate(loc[t].time, loc[t].old_last_time)]

\* Lines 267-281: a later beat reads buffer_index, feeds the interval since
\* the last beat to the averager, computes the two other rates and stores the
\* record at index.  An index outside the array is a store outside the
\* object: it lands in the memory behind the array, or it ends the process.
HbNextLog(t) ==
  /\ phase = "live"
  /\ pc[t] = "branch"
  /\ ~IsFirstBeat
  /\ LET index == state.buffer_index
         h == WindowAverage([hb EXCEPT !.last_timestamp = loc[t].time],
                            state.window_size,
                            loc[t].time - loc[t].old_last_time)
     IN  /\ hb' = h
         /\ \/ /\ log' = [log EXCEPT ![index] = NextRecord(t, h)]
               /\ loc' = [loc EXCEPT
                            ![t].index = index,
                            ![t].window_heartrate =
                               RateOfMean(h.last_average_time)]
               /\ written' = Append(written,
                               [beat |-> state.counter, index |-> index,
                                tag |-> loc[t].tag, time |-> loc[t].time,
                                first |-> FALSE])
               /\ pc' = [pc EXCEPT ![t] = "next_index"]
               /\ UNCHANGED phase
            \/ /\ index >= state.buffer_depth
               /\ phase' = "fault"
               /\ UNCHANGED <<log, loc, written, pc>>
  /\ UNCHANGED <<args, assigned, held, unset_used, state, text_file, mutex,
                 timefile, returned, flushes>>

\* Line 282.
HbNextIndex(t) ==
  /\ phase = "live"
  /\ pc[t] = "next_index"
  /\ state' = [state EXCEPT !.buffer_index = @ + 1]
  /\ pc' = [pc EXCEPT ![t] = "next_counter"]
  /\ UNCHANGED <<args, phase, assigned, held, unset_used, hb, log, text_file,
                 mutex, loc, timefile, written, returned, flushes>>

\* Line 283.
HbNextCounter(t) ==
  /\ phase = "live"
  /\ pc[t] = "next_counter"
  /\ state' = [state EXCEPT !.counter = NextCount(@)]
  /\ pc' = [pc EXCEPT ![t] = "next_read"]
  /\ UNCHANGED <<args, phase, assigned, held, unset_used, hb, log, text_file,
                 mutex, loc, timefile, written, returned, flushes>>

\* Line 284.
HbNextRead(t) ==
  /\ phase = "live"
  /\ pc[t] = "next_read"
  /\ state' = [state EXCEPT !.read_index = @ + 1]
  /\ pc' = [pc EXCEPT ![t] = "wrap_buffer"]
  /\ UNCHANGED <<args, phase, assigned, held, unset_used, hb, log, text_file,
                 mutex, loc, timefile, written, returned, flushes>>

\* The test of line 286.
BufferWraps == state.buffer_index % state.buffer_depth = 0

\* Lines 286-290: at a multiple of buffer_depth, flush buffer_index records
\* to the text log when there is one, and reset buffer_index.
HbWrapBuffer(t) ==
  /\ phase = "live"
  /\ pc[t] = "wrap_buffer"
  /\ IF BufferWraps
       THEN /\ state' = [state EXCEPT !.buffer_index = 0]
            /\ IF text_file.open
                 THEN /\ text_file' =
                           [text_file EXCEPT
                              !.lines = @ \o FlushLines(log, state.buffer_index)]
                      /\ flushes' = Append(flushes,
                                      [beats |-> state.counter,
                                       n |-> state.buffer_index])
                 ELSE UNCHANGED <<text_file, flushes>>
       ELSE UNCHANGED <<state, text_file, flushes>>
  /\ pc' = [pc EXCEPT ![t] = "wrap_read"]
  /\ UNCHANGED <<args, phase, assigned, held, unset_used, hb, log, mutex, loc,
                 timefile, written, returned>>

\* Lines 291-293.
HbWrapRead(t) ==
  /\ phase = "live"
  /\ pc[t] = "wrap_read"
  /\ state' = [state EXCEPT
                 !.read_index = IF @ % state.buffer_depth = 0 THEN 0 ELSE @]
  /\ pc' = [pc EXCEPT ![t] = "unlock"]
  /\ UNCHANGED <<args, phase, assigned, held, unset_used, hb, log, text_file,
                 mutex, loc, timefile, written, returned, flushes>>

\* Lines 295-296: release the mutex and return the time read.
HbUnlock(t) ==
  /\ phase = "live"
  /\ pc[t] = "unlock"
  /\ mutex' = NoThread
  /\ returned' = Append(returned, [tag |-> loc[t].tag, time |-> loc[t].time])
  /\ loc' = [loc EXCEPT ![t] = LocInit]
  /\ pc' = [pc EXCEPT ![t] = "idle"]
  /\ UNCHANGED <<args, phase, assigned, held, unset_used, hb, state, log,
                 text_file, timefile, written, flushes>>

Heartbeat(t) ==
  \/ HbCall(t)
  \/ HbLock(t)
  \/ HbFirstLog(t)
  \/ HbFirstCounter(t)
  \/ HbFirstIndex(t)
  \/ HbFirstValid(t)
  \/ HbNextLog(t)
  \/ HbNextIndex(t)
  \/ HbNextCounter(t)
  \/ HbNextRead(t)
  \/ HbWrapBuffer(t)
  \/ HbWrapRead(t)
  \/ HbUnlock(t)

Next ==
  \/ HeartbeatInit
  \/ HeartbeatFinish
  \/ \E t \in Threads : Heartbeat(t)

Spec == Init /\ [][Next]_vars

\* The steps of a call of heartbeat() that is under way (lines 233-296).
HbStep(t) ==
  \/ HbLock(t)
  \/ HbFirstLog(t)
  \/ HbFirstCounter(t)
  \/ HbFirstIndex(t)
  \/ HbFirstValid(t)
  \/ HbNextLog(t)
  \/ HbNextIndex(t)
  \/ HbNextCounter(t)
  \/ HbNextRead(t)
  \/ HbWrapBuffer(t)
  \/ HbWrapRead(t)
  \/ HbUnlock(t)

\* Fair scheduling: a thread inside heartbeat() that can take its next step
\* takes it in the end.  The calls are finitely many, so a thread waiting for
\* the mutex finds it free from some point on.
FairSpec == Init /\ [][Next]_vars /\ \A t \in Threads : WF_vars(HbStep(t))

\* The end-to-end scenario of the specification: window_size 4,
\* buffer_depth 2 and a text log.
InitE2E ==
  InitWith({[window_size |-> 4, buffer_depth |-> 2, log_name |-> TRUE]})

SpecE2E == InitE2E /\ [][Next]_vars

\* ---------------------------------------------------------------- claims
\* A thread between the acquisition and the release of the mutex.
InCritical(t) == pc[t] \notin {"idle", "lock"}

RECURSIVE IntervalsUpTo(_, _)
\* The intervals fed to the averager by the first n stores: every beat that
\* did not take the first-beat branch feeds its time less the time of the
\* beat before it.
IntervalsUpTo(w, n) ==
  IF n <= 1 THEN <<>>
  ELSE IntervalsUpTo(w, n - 1)
         \o (IF w[n].first THEN <<>> ELSE <<w[n].time - w[n - 1].time>>)

Intervals == IntervalsUpTo(written, Len(written))

RECURSIVE SumSeq(_)
SumSeq(q) == IF q = <<>> THEN 0 ELSE Head(q) + SumSeq(Tail(q))

\* The record the last store wrote, as the log holds it.
LastRecord == log[written[Len(written)].index]

\* C1: the beats stored in the log are 0, 1, 2, ... in the order of the
\* stores, which is the order in which the calls took the mutex and the order
\* in which they return; and whenever no call holds the mutex, state.counter
\* is the number of calls that have returned.
C1_BeatsInCallOrder ==
  /\ \A i \in 1..Len(written) : written[i].beat = i - 1
  /\ Len(returned) <= Len(written)
  /\ \A i \in 1..Len(returned) :
       /\ returned[i].tag = written[i].tag
       /\ returned[i].time = written[i].time
  /\ (phase = "live" /\ written # <<>>) => LastRecord.beat = Len(written) - 1
  /\ (phase = "live" /\ mutex = NoThread) =>
       /\ state.counter = Len(returned)
       /\ Len(written) = Len(returned)

\* C1's case: the second beat is stored by one thread while the other waits
\* for the mutex, and the first two calls took the mutex in the other order
\* than they were made.
C1_Witness ==
  /\ Len(returned) = 1
  /\ Len(written) = 2
  /\ written[1].tag > written[2].tag
  /\ \E t, u \in Threads : pc[t] = "unlock" /\ pc[u] = "lock"

\* C2: no two threads are between the acquisition and the release of the
\* mutex at once, and a thread that is there holds the mutex.
C2_MutualExclusion ==
  /\ \A t, u \in Threads : (InCritical(t) /\ InCritical(u)) => t = u
  /\ \A t \in Threads : InCritical(t) => mutex = t

\* C2's case: a thread is about to reset buffer_index while the other has
\* called heartbeat() and waits for the mutex.
C2_Witness ==
  \E t, u \in Threads : pc[t] = "wrap_buffer" /\ pc[u] = "lock"

\* C3: after a successful init, buffer_index and read_index are indices of
\* the log array, 0 <= index < buffer_depth, in every state.
C3_IndicesAlwaysValid ==
  phase \in {"live", "finished", "fault"} =>
    /\ state.buffer_index \in 0..(state.buffer_depth - 1)
    /\ state.read_index \in 0..(state.buffer_depth - 1)

\* C4: after a completed call, buffer_index is 0 exactly when the number of
\* beats recorded is a positive multiple of buffer_depth.
C4_IndexZeroEveryDepth ==
  (phase = "live" /\ mutex = NoThread /\ state.counter >= 1) =>
    ((state.buffer_index = 0) <=> (state.counter % state.buffer_depth = 0))

\* C5: with a text log, the calls that flush are exactly those that bring the
\* number of recorded beats to a multiple of buffer_depth, and each flush
\* writes buffer_depth records; without a text log nothing is ever written.
C5_FlushOncePerDepth ==
  (phase = "live" /\ mutex = NoThread) =>
    IF args.log_name
      THEN /\ Len(flushes) = state.counter \div state.buffer_depth
           /\ \A i \in 1..Len(flushes) :
                /\ flushes[i].beats = i * state.buffer_depth
                /\ flushes[i].n = state.buffer_depth
           /\ Len(text_file.lines) = Len(flushes) * state.buffer_depth
      ELSE flushes = <<>> /\ text_file.lines = <<>>

\* C6: when heartbeat_init has failed and returned NULL, the process holds
\* none of the resources the call acquired.
C6_FailedInitReleasesAll ==
  phase = "failed" => held = {}

\* C7: heartbeat_finish, called from a failure branch of heartbeat_init, uses
\* no field that has not been assigned.
C7_FinishUsesOnlyAssigned ==
  unset_used = {}

C9_FillingMean ==
  phase \in {"live", "finished"} =>
    LET iv == Intervals
        n == Len(iv)
    IN  /\ hb.steady_state <=> (n >= state.window_size)
        /\ ~hb.steady_state =>
             /\ hb.current_index = n
             /\ n >= 1 => hb.last_average_time = Rat(SumSeq(iv), n)
        /\ n = state.window_size => hb.current_index = 0

\* C9's case: the window is being filled and holds an interval that is not 0.
C9_Witness ==
  /\ phase = "live"
  /\ ~hb.steady_state
  /\ Len(Intervals) >= 1
  /\ hb.last_average_time # Zero

\* The scenario: heartbeat(tag = 1) at t = 0, then heartbeat(tag = 2) at
\* t = 1000000000.
FirstBeatAtZero ==
  Len(written) >= 1 /\ written[1].tag = 1 /\ written[1].time = 0

SecondBeatAfterOneSecond ==
  Len(written) >= 2 /\ written[2].tag = 2 /\ written[2].time = NS

\* What the scenario leaves, but for the global rate of the second beat.
E2ERecords ==
  /\ (FirstBeatAtZero /\ Len(returned) >= 1) => returned[1].time = 0
  /\ (FirstBeatAtZero /\ Len(written) <= 2) =>
       log[0] = [beat |-> 0, tag |-> 1, timestamp |-> 0, global_rate |-> Zero,
                 window_rate |-> Zero, instant_rate |-> Zero]
  /\ (FirstBeatAtZero /\ SecondBeatAfterOneSecond /\ Len(written) = 2) =>
       /\ log[1].beat = 1 /\ log[1].tag = 2 /\ log[1].timestamp = NS
       /\ log[1].instant_rate = Rat(1, NS)

\* C10 as stated: in the scenario the first call returns 0 and record 0 has
\* all rates 0; the second beat's record has instant_rate 1.0 and global_rate
\* 1.0 beats per second.
C10_GlobalRateOne ==
  phase = "live" =>
    /\ E2ERecords
    /\ (FirstBeatAtZero /\ SecondBeatAfterOneSecond /\ Len(written) = 2) =>
         log[1].global_rate = Rat(1, NS)

\* C10 as amended: the second beat's record has instant_rate 1.0 and
\* global_rate 2.0 beats per second (counter + 1 = 2 beats over one second).
C10_EndToEnd ==
  phase = "live" =>
    /\ E2ERecords
    /\ (FirstBeatAtZero /\ SecondBeatAfterOneSecond /\ Len(written) = 2) =>
         log[1].global_rate = Rat(2, NS)

\* C10's case: both calls of the scenario have returned.
C10_Witness ==
  /\ phase = "live"
  /\ args = [window_size |-> 4, buffer_depth |-> 2, log_name |-> TRUE]
  /\ FirstBeatAtZero
  /\ SecondBeatAfterOneSecond
  /\ Len(returned) = 2
  /\ Len(written) = 2

\* C11: after a successful init state.valid is 0 until a call has passed
\* line 263 and 1 from then on; where valid is 1, counter is at least 1,
\* buffer_index has been advanced and a record has been stored with all its
\* fields (log[0] holds the beat and the tag of a call: beat 0 until a later
\* beat is stored over it); every call that has returned has left valid 1.
C11_ValidAfterFirstRecord ==
  /\ [](phase \in {"live", "finished", "fault"} =>
          /\ state.valid \in {0, 1}
          /\ state.valid = 1 =>
               /\ state.counter >= 1
               /\ written # <<>>
               /\ written[1].index = 0
               /\ log[0].beat \in 0..state.counter
               /\ Len(written) = 1 => log[0].beat = 0
               /\ log[0].tag \in {written[i].tag : i \in 1..Len(written)}
               /\ state.buffer_index >= 1 \/ Len(written) >= 2
          /\ state.valid = 0 => returned = <<>> /\ state.counter <= 1
          /\ returned # <<>> => state.valid = 1)
  /\ [][state.valid = 1 => state'.valid = 1]_vars

\* C11's case: the first call has just set valid, nothing has returned yet.
C11_Witness ==
  /\ phase = "live"
  /\ state.valid = 1
  /\ returned = <<>>
  /\ state.counter = 1
  /\ \E t \in Threads : pc[t] = "unlock"

\* C12: after heartbeat_finish has returned on a handle that heartbeat_init
\* built, the process holds none of the handle's resources: neither the
\* shared state nor the shared log, nor anything else.
C12_FinishReleasesShared ==
  phase = "finished" => held = {}

\* C13: heartbeat() has no failure outcome.  No call ends the process,
\* whatever the time source holds; every call that has returned has stored a
\* record with its tag and has returned the timestamp of that record; a call
\* that has just read takes as its time a number the source can hold or 0;
\* and the counter is the number of records stored whenever no call is
\* under way.
C13_NoFailureOutcome ==
  /\ phase # "fault"
  /\ Len(returned) <= Len(written)
  /\ \A i \in 1..Len(returned) :
       /\ returned[i].tag = written[i].tag
       /\ returned[i].time = written[i].time
  /\ \A t \in Threads : pc[t] = "branch" => loc[t].time \in Times \cup {0}
  /\ (phase = "live" /\ mutex = NoThread) => state.counter = Len(written)

\* C14: under fair scheduling every call of heartbeat() that has started
\* returns, and whenever no thread is inside heartbeat() the mutex is free.
C14_CallsReturn ==
  /\ \A t \in Threads : (pc[t] = "lock") ~> (pc[t] = "idle")
  /\ []((\A t \in Threads : pc[t] = "idle") => mutex = NoThread)

\* C15: every call reads the whole file again, so two calls one after the
\* other, made while the file holds the same line, take the same timestamp.
\* Where the second call has just read and the stream stands at the line
\* break that ends the file's line, the file holds what the first call read
\* (one second) and the line break: the second call's time is the first
\* call's.
C15_RereadEveryCall ==
  \A t \in Threads :
    (phase = "live" /\ pc[t] = "branch" /\ Len(written) = 1
       /\ written[1].time = NS /\ timefile = <<NL>>)
      => loc[t].time = written[1].time

\* A call in the later-beat branch whose time is the time of the beat before.
ZeroInterval(t) ==
  pc[t] = "branch" /\ ~IsFirstBeat /\ loc[t].time = loc[t].old_last_time

\* C16: a call at the timestamp of the call before it does not fault: it
\* stores its record, with the beat of the counter and an infinite
\* instantaneous rate, and goes on to advance the counter and the indices.
C16_ZeroIntervalCompletes ==
  /\ phase = "fault" => ~\E t \in Threads : ZeroInterval(t)
  /\ (phase = "live" /\ Len(written) >= 2
        /\ ~written[Len(written)].first
        /\ written[Len(written)].time = written[Len(written) - 1].time) =>
       /\ LastRecord.instant_rate = Inf
       /\ LastRecord.beat = Len(written) - 1
       /\ mutex = NoThread =>
            /\ state.counter = Len(written)
            /\ state.read_index \in 0..(state.buffer_depth - 1)

\* C17: the first-beat branch is taken by the first call on the handle and by
\* no later call, whatever the timestamps are: the first store, and only the
\* first, is a store of that branch; a thread is in that branch only while
\* the counter is below 2 and one record at most has been stored.
C17_FirstBranchOnce ==
  /\ \A i \in 1..Len(written) : written[i].first <=> (i = 1)
  /\ \A t \in Threads :
       pc[t] \in {"first_counter", "first_index", "first_valid"} =>
         Len(written) = 1

\* C18: with a text log, after n calls of heartbeat() and heartbeat_finish
\* the text log holds the header and n record lines, the beats 0, 1, ...,
\* n - 1 in this order.
C18_TextLogHoldsEveryBeat ==
  (phase = "finished" /\ args.log_name) =>
    /\ text_file.header
    /\ Len(text_file.lines) = Len(returned)
    /\ \A i \in 1..Len(text_file.lines) : text_file.lines[i].beat = i - 1

\* C19: the record of beat b is stored at index b mod buffer_depth, never
\* outside the array; after n calls the slots written are those of the
\* min(n, buffer_depth) most recent beats, and the slot i that holds a beat
\* holds a beat that is i modulo buffer_depth.
C19_BeatAtIndexModDepth ==
  phase \in {"live", "finished"} =>
    /\ \A k \in 1..Len(written) :
         /\ written[k].index \in 0..(state.buffer_depth - 1)
         /\ written[k].index = written[k].beat % state.buffer_depth
    /\ \A i \in LogSlots :
         log[i].beat # Unset =>
           /\ i < state.buffer_depth
           /\ log[i].beat % state.buffer_depth = i
           /\ log[i].beat >= Len(written) - state.buffer_depth

\* C20: after every completed call, once a beat has been recorded, read_index
\* is (counter - 1) mod buffer_depth, the index of the record stored last,
\* one slot behind buffer_index modulo buffer_depth.
C20_ReadIndexTrails ==
  (phase = "live" /\ mutex = NoThread /\ state.counter >= 1) =>
    /\ state.read_index = (state.counter - 1) % state.buffer_depth
    /\ state.read_index = written[Len(written)].index
    /\ (state.read_index + 1) % state.buffer_depth
         = state.buffer_index % state.buffer_depth

====
